---- MODULE Spec2Model ----
(***************************************************************************)
(* Model of the URL shortener backend (src/backend/server.js): the Counter *)
(* and Url collections, server start-up, and the request handlers          *)
(* POST /api/create/longurl, GET /api/info/<code> and GET /<code> with its *)
(* detached click increment.  Every database operation (each await in the  *)
(* source) is one atomic step; the synchronous code that follows an await  *)
(* up to the next await or the response belongs to the same step.          *)
(***************************************************************************)
EXTENDS Integers, Sequences, FiniteSets, TLC

\* ------------------------------------------------------------------ bounds
MaxReq == 2
MaxDedupReq == 3
MaxClickReq == 3
MaxInst == 2
MaxEncN == 130

\* -------------------------------------------------------- program constants
StartOffset == 100000
Base == 62
MaxCodeLen == 10

VARIABLES
  counters,   \* Counter collection: values of the documents named 'urlId'
  urls,       \* Url collection in insertion order: [originalUrl, shortCode, clicks]
  inst,       \* per server instance: position in startServer/connectDB
  initErr,    \* per server instance: initializeCounter caught an error
  pc,         \* per request: position in its handler
  call,       \* per request: [op, arg] the route and its input
  loc,        \* per request: handler locals [existingUrl, counterId, shortCode, urlDoc]
  resp,       \* per request: the response sent
  click,      \* per request: state of the detached findByIdAndUpdate
  eff,        \* per request: storage operations performed [finds, incs, inserts]
  before,     \* per request: the requests already answered when it arrived
  issued,     \* values returned by getNextCounterValue, in order of issue
  encIn,      \* encoder harness: the integer given to encodeBase62
  encOut      \* encoder harness: the string returned

vars == <<counters, urls, inst, initErr, pc, call, loc, resp, click, eff,
          before, issued, encIn, encOut>>

storeVars == <<counters, urls>>
instVars == <<inst, initErr>>
reqVars == <<pc, call, loc, resp, click, eff, before>>
encVars == <<encIn, encOut>>

\* request slots; a specification lets the first MaxReq, MaxDedupReq or
\* MaxClickReq of them arrive
Larger(a, b) == IF a > b THEN a ELSE b
Req == 1..Larger(MaxReq, Larger(MaxDedupReq, MaxClickReq))
Inst == 1..MaxInst

\* ------------------------------------------------------------ Code Encoder
BASE62_CHARS ==
  << "0","1","2","3","4","5","6","7","8","9",
     "a","b","c","d","e","f","g","h","i","j","k","l","m",
     "n","o","p","q","r","s","t","u","v","w","x","y","z",
     "A","B","C","D","E","F","G","H","I","J","K","L","M",
     "N","O","P","Q","R","S","T","U","V","W","X","Y","Z" >>

\* the loop with the digits appended instead of prepended
RECURSIVE EncodeLoopAppend(_, _)
EncodeLoopAppend(num, result) ==
  IF num > 0
    THEN EncodeLoopAppend(num \div Base, result \o <<BASE62_CHARS[(num % Base) + 1]>>)
    ELSE result

\* the while loop of encodeBase62: result = BASE62_CHARS[num % 62] + result
RECURSIVE EncodeLoop(_, _)
EncodeLoop(num, result) ==
  IF num > 0
    THEN EncodeLoop(num \div Base, <<BASE62_CHARS[(num % Base) + 1]>> \o result)
    ELSE result

encodeBase62(num) ==
  IF num = 0 THEN <<BASE62_CHARS[1]>> ELSE EncodeLoop(num, <<>>)

\* --------------------------------------------------------------- inputs
\* A string is a sequence of tokens: " " is white space, "http:", "https:" and
\* "ftp:" are schemes, "//example.com/a" and "//example.com/b" are the rest of a
\* URL, "example.com" is text without a scheme.  A short code or request path is
\* a sequence of characters.
Schemes == {"http:", "https:", "ftp:"}
Rests == {"//example.com/a", "//example.com/b"}

Undefined == [kind |-> "undefined", text |-> <<>>]
ANumber == [kind |-> "number", text |-> <<>>]
Str(t) == [kind |-> "string", text |-> t]

\* the values of req.body.longUrl the model sends
LongUrls ==
  { Undefined, ANumber, Str(<<>>), Str(<<" ">>), Str(<<"example.com">>),
    Str(<<"ftp:", "//example.com/a">>),
    Str(<<"https:", "//example.com/a">>),
    Str(<<" ", "https:", "//example.com/a", " ">>),
    Str(<<"http:", "//example.com/b">>) }

NoCode == <<>>
NoUrl == <<>>
NoDoc == 0

\* String.prototype.trim
RECURSIVE trim(_)
trim(t) ==
  IF t = <<>> THEN t
  ELSE IF Head(t) = " " THEN trim(Tail(t))
  ELSE IF t[Len(t)] = " " THEN trim(SubSeq(t, 1, Len(t) - 1))
  ELSE t

\* new URL(string) does not throw: a scheme followed by a host, no stray space
Parses(t) ==
  /\ Len(t) >= 2
  /\ t[1] \in Schemes
  /\ t[2] \in Rests
  /\ \A i \in 3..Len(t) : t[i] # " "

isValidUrlNoProtocolCheck(t) == Parses(t)

isValidUrl(t) == Parses(t) /\ (t[1] = "http:" \/ t[1] = "https:")

\* !longUrl || typeof longUrl !== 'string'
MissingLongUrl(b) == b.kind # "string" \/ b.text = <<>>

Alnum == { BASE62_CHARS[i] : i \in 1..Len(BASE62_CHARS) }

\* the format check without the upper limit on the length
isValidShortCodeAnyLength(code) ==
  /\ Len(code) >= 1
  /\ \A i \in 1..Len(code) : code[i] \in Alnum

isValidShortCode(code) ==
  /\ Len(code) >= 1
  /\ \A i \in 1..Len(code) : code[i] \in Alnum
  /\ Len(code) <= MaxCodeLen

\* ------------------------------------------------------ persistence backend
\* Url.findOne({ originalUrl }): the documents that match (ids are positions)
MatchAnyUrl(us, u) == { i \in 1..Len(us) : TRUE }

MatchOriginalUrl(us, u) == { i \in 1..Len(us) : us[i].originalUrl = u }

\* Url.findOne with a filter that selects nothing
MatchAnyCode(us, c) == { i \in 1..Len(us) : TRUE }

\* Url.findOne({ shortCode })
MatchShortCode(us, c) == { i \in 1..Len(us) : us[i].shortCode = c }

\* the unique index on shortCode rejects the insert
NoUniqueShortCode(us, c) == FALSE

DuplicateShortCode(us, c) == MatchShortCode(us, c) # {}

\* new Url({ originalUrl, shortCode }): clicks defaults to 0
NewUrlDocOtherCode(u, c) ==
  [originalUrl |-> u, shortCode |-> encodeBase62(Len(u)), clicks |-> 0]

NewUrlDoc(u, c) == [originalUrl |-> u, shortCode |-> c, clicks |-> 0]

\* counterSchema.name is unique: a second document named 'urlId' is rejected
NoUniqueCounterName(cs) == FALSE

DuplicateCounterName(cs) == Len(cs) > 0

\* { $inc: { value: 1 } }
IncValueLost(v) == v

IncValue(v) == v + 1

\* Counter.findOneAndUpdate({name:'urlId'}, {$inc:{value:1}}, {new:true, upsert:true}):
\* an existing counter is incremented; when there is none the upsert inserts one
\* whose value is the increment applied to nothing, 1
CounterAfterUpdate(cs) ==
  IF Len(cs) > 0 THEN [cs EXCEPT ![1] = IncValue(@)] ELSE <<IncValue(0)>>

\* { $inc: { clicks: 1 } }
IncClicksReset(d) == [d EXCEPT !.clicks = 0]

IncClicksReplaceDoc(d) == [d EXCEPT !.clicks = @ + 1, !.originalUrl = NoUrl]

IncClicksTwice(d) == [d EXCEPT !.clicks = @ + 2]

IncClicks(d) == [d EXCEPT !.clicks = @ + 1]

\* ------------------------------------------------------------ responses
NoResp ==
  [status |-> 0, success |-> FALSE, shortCode |-> NoCode, originalUrl |-> NoUrl,
   location |-> NoUrl, clicks |-> 0]

ErrorResp(st) == [NoResp EXCEPT !.status = st]

ShortenResp(st, c, u) ==
  [NoResp EXCEPT !.status = st, !.success = TRUE, !.shortCode = c, !.originalUrl = u]

\* res.status(code)
resStatus(rs, code) == [rs EXCEPT !.status = code]

\* res.redirect(url) called with the url alone: Express sets the Location header
\* and then assigns statusCode = 302, whatever res.status() had set before
resRedirect(rs, u) == [rs EXCEPT !.status = 302, !.location = u]

\* res.status(301).redirect(urlDoc.originalUrl)
RedirectResp(u) == resRedirect(resStatus(NoResp, 301), u)

InfoResp(d) ==
  [NoResp EXCEPT !.status = 200, !.success = TRUE, !.shortCode = d.shortCode,
                 !.originalUrl = d.originalUrl, !.clicks = d.clicks]

NoCall == [op |-> "none", longUrl |-> Undefined, path |-> NoCode]
NoLoc == [existingUrl |-> NoDoc, counterId |-> 0, shortCode |-> NoCode, urlDoc |-> NoDoc]
NoEff == [finds |-> 0, incs |-> 0, inserts |-> 0]

\* 'favicon.ico' and a path below /api/ that is no route
Favicon == <<"f", "a", "v", "i", "c", "o", "n", ".", "i", "c", "o">>
ApiPaths == { <<"a", "p", "i", "/", "x">> }

\* shortCode.startsWith('api/')
StartsWithApi(p) == Len(p) >= 4 /\ SubSeq(p, 1, 4) = <<"a", "p", "i", "/">>

\* the paths the model requests besides the codes of stored records: the code
\* of the first value a fresh counter issues, a well-formed code that is never
\* issued, a code with a character outside [A-Za-z0-9], a code of 11
\* characters, the empty path and favicon.ico
ProbeCodes ==
  { encodeBase62(StartOffset + 1), <<"z", "Z", "9">>, <<"a", "-", "b">>,
    <<"a", "b", "c", "d", "e", "f", "g", "h", "i", "j", "k">>, <<>>, Favicon }

StoredCodes == { urls[i].shortCode : i \in 1..Len(urls) }

\* ------------------------------------------------------------------ Init
Init ==
  /\ counters = <<>>
  /\ urls = <<>>
  /\ inst = [i \in Inst |-> "start"]
  /\ initErr = [i \in Inst |-> FALSE]
  /\ pc = [r \in Req |-> "idle"]
  /\ call = [r \in Req |-> NoCall]
  /\ loc = [r \in Req |-> NoLoc]
  /\ resp = [r \in Req |-> NoResp]
  /\ click = [r \in Req |-> "none"]
  /\ eff = [r \in Req |-> NoEff]
  /\ before = [r \in Req |-> {}]
  /\ issued = <<>>
  /\ encIn = 0
  /\ encOut = NoCode

\* ------------------------------------------------------------ start-up
\* instances and requests are interchangeable: they are taken in index order
InstTurn(i) == IF i = 1 THEN TRUE ELSE inst[i - 1] # "start"

\* connectDB: mongoose.connect succeeds, initializeCounter is called
Connect(i) ==
  /\ inst[i] = "start"
  /\ InstTurn(i)
  /\ inst' = [inst EXCEPT ![i] = "initFind"]
  /\ UNCHANGED <<initErr, storeVars, reqVars, issued, encVars>>

\* connectDB: mongoose.connect rejects, process.exit(1)
ConnectFail(i) ==
  /\ inst[i] = "start"
  /\ InstTurn(i)
  /\ inst' = [inst EXCEPT ![i] = "exited"]
  /\ UNCHANGED <<initErr, storeVars, reqVars, issued, encVars>>

\* initializeCounter: Counter.findOne({ name: 'urlId' }); when the counter is
\* there start-up goes on to app.listen
InitFind(i) ==
  /\ inst[i] = "initFind"
  /\ inst' = [inst EXCEPT ![i] = IF Len(counters) > 0 THEN "listening" ELSE "initCreate"]
  /\ UNCHANGED <<initErr, storeVars, reqVars, issued, encVars>>

\* initializeCounter: Counter.create({ name: 'urlId', value: 100000 }); the
\* unique index on name rejects a second document, the error is caught and
\* logged, and start-up goes on to app.listen
InitCreate(i) ==
  /\ inst[i] = "initCreate"
  /\ IF DuplicateCounterName(counters)
       THEN /\ initErr' = [initErr EXCEPT ![i] = TRUE]
            /\ UNCHANGED counters
       ELSE /\ counters' = Append(counters, StartOffset)
            /\ UNCHANGED initErr
  /\ inst' = [inst EXCEPT ![i] = "listening"]
  /\ UNCHANGED <<urls, reqVars, issued, encVars>>

\* initializeCounter: findOne or create rejects because the store is
\* unavailable; the catch logs it and start-up goes on to app.listen
InitFail(i) ==
  /\ inst[i] \in {"initFind", "initCreate"}
  /\ initErr' = [initErr EXCEPT ![i] = TRUE]
  /\ inst' = [inst EXCEPT ![i] = "listening"]
  /\ UNCHANGED <<storeVars, reqVars, issued, encVars>>

Listening == \E i \in Inst : inst[i] = "listening"

\* ------------------------------------------------------ request arrival
ReqTurn(r) == IF r = 1 THEN TRUE ELSE pc[r - 1] # "idle"

Answered == { q \in Req : pc[q] = "done" }

Arrive(r) ==
  /\ pc[r] = "idle"
  /\ ReqTurn(r)
  /\ Listening
  /\ before' = [before EXCEPT ![r] = Answered]

\* --------------------------------------------- POST /api/create/longurl
\* validation, then Url.findOne({ originalUrl: trimmedUrl }) is sent
ShortenStart(r, b) ==
  /\ Arrive(r)
  /\ call' = [call EXCEPT ![r] = [op |-> "shorten", longUrl |-> b, path |-> NoCode]]
  /\ IF MissingLongUrl(b) \/ ~isValidUrl(trim(b.text))
       THEN /\ pc' = [pc EXCEPT ![r] = "done"]
            /\ resp' = [resp EXCEPT ![r] = ErrorResp(400)]
       ELSE /\ pc' = [pc EXCEPT ![r] = "lookup"]
            /\ UNCHANGED resp
  /\ UNCHANGED <<loc, click, eff, storeVars, instVars, issued, encVars>>

trimmedUrl(r) == trim(call[r].longUrl.text)

\* if (existingUrl)
ExistingUrlIgnored(d) == FALSE

ExistingUrlFound(d) == d # NoDoc

\* the findOne answers; an existing document is returned with status 200,
\* otherwise getNextCounterValue is called
ShortenLookup(r) ==
  /\ pc[r] = "lookup"
  /\ \E d \in IF MatchOriginalUrl(urls, trimmedUrl(r)) = {}
                THEN {NoDoc} ELSE MatchOriginalUrl(urls, trimmedUrl(r)) :
       /\ loc' = [loc EXCEPT ![r].existingUrl = d]
       /\ IF ExistingUrlFound(d)
            THEN /\ pc' = [pc EXCEPT ![r] = "done"]
                 /\ resp' = [resp EXCEPT ![r] =
                       ShortenResp(200, urls[d].shortCode, trimmedUrl(r))]
            ELSE /\ pc' = [pc EXCEPT ![r] = "alloc"]
                 /\ UNCHANGED resp
  /\ eff' = [eff EXCEPT ![r].finds = @ + 1]
  /\ UNCHANGED <<call, click, before, storeVars, instVars, issued, encVars>>

\* getNextCounterValue: the atomic findOneAndUpdate; then encodeBase62 and
\* newUrl.save() is sent
ShortenAlloc(r) ==
  /\ pc[r] = "alloc"
  /\ counters' = CounterAfterUpdate(counters)
  /\ issued' = Append(issued, counters'[1])
  /\ loc' = [loc EXCEPT ![r].counterId = counters'[1],
                        ![r].shortCode = encodeBase62(counters'[1])]
  /\ eff' = [eff EXCEPT ![r].incs = @ + 1]
  /\ pc' = [pc EXCEPT ![r] = "save"]
  /\ UNCHANGED <<urls, call, resp, click, before, instVars, encVars>>

\* newUrl.save(): the insert, rejected by the unique index when the short code
\* is stored already (the catch answers 500); otherwise status 201
ShortenSave(r) ==
  /\ pc[r] = "save"
  /\ IF DuplicateShortCode(urls, loc[r].shortCode)
       THEN /\ resp' = [resp EXCEPT ![r] = ErrorResp(500)]
            /\ UNCHANGED <<urls, eff>>
       ELSE /\ urls' = Append(urls, NewUrlDoc(trimmedUrl(r), loc[r].shortCode))
            /\ eff' = [eff EXCEPT ![r].inserts = @ + 1]
            /\ resp' = [resp EXCEPT ![r] =
                  ShortenResp(201, loc[r].shortCode, trimmedUrl(r))]
  /\ pc' = [pc EXCEPT ![r] = "done"]
  /\ UNCHANGED <<counters, call, loc, click, before, instVars, issued, encVars>>

\* getNextCounterValue rethrows what it caught and the handler's catch answers
\* 500; the variant answers with the encoding of a made-up value instead
ShortenCatchFabricates(r) == ShortenResp(201, encodeBase62(0), trimmedUrl(r))

ShortenCatch(r) == ErrorResp(500)

\* an awaited store operation of the handler rejects (store unavailable): the
\* catch answers 500
ShortenStoreFail(r) ==
  /\ pc[r] \in {"lookup", "alloc", "save"}
  /\ pc' = [pc EXCEPT ![r] = "done"]
  /\ resp' = [resp EXCEPT ![r] = ShortenCatch(r)]
  /\ UNCHANGED <<call, loc, click, eff, before, storeVars, instVars, issued, encVars>>

\* ------------------------------------------------------------- GET /*
\* the redirect handler up to Url.findOne({ shortCode }) being sent
ResolveStart(r, p) ==
  /\ Arrive(r)
  /\ call' = [call EXCEPT ![r] = [op |-> "resolve", longUrl |-> Undefined, path |-> p]]
  /\ IF p = <<>> \/ StartsWithApi(p) \/ p = Favicon
       THEN /\ pc' = [pc EXCEPT ![r] = "done"]
            /\ resp' = [resp EXCEPT ![r] = ErrorResp(404)]
       ELSE IF ~isValidShortCode(p)
       THEN /\ pc' = [pc EXCEPT ![r] = "done"]
            /\ resp' = [resp EXCEPT ![r] = ErrorResp(400)]
       ELSE /\ pc' = [pc EXCEPT ![r] = "rfind"]
            /\ UNCHANGED resp
  /\ UNCHANGED <<loc, click, eff, storeVars, instVars, issued, encVars>>

\* the findOne answers: 404 when there is no document; otherwise the click
\* increment is sent without being awaited and the redirect is answered
ResolveFind(r) ==
  /\ pc[r] = "rfind"
  /\ \E d \in IF MatchShortCode(urls, call[r].path) = {}
                THEN {NoDoc} ELSE MatchShortCode(urls, call[r].path) :
       /\ loc' = [loc EXCEPT ![r].urlDoc = d]
       /\ IF d = NoDoc
            THEN /\ resp' = [resp EXCEPT ![r] = ErrorResp(404)]
                 /\ UNCHANGED click
            ELSE /\ click' = [click EXCEPT ![r] = "pending"]
                 /\ resp' = [resp EXCEPT ![r] = RedirectResp(urls[d].originalUrl)]
  /\ eff' = [eff EXCEPT ![r].finds = @ + 1]
  /\ pc' = [pc EXCEPT ![r] = "done"]
  /\ UNCHANGED <<call, before, storeVars, instVars, issued, encVars>>

\* the findOne rejects: the catch answers 500
ResolveStoreFail(r) ==
  /\ pc[r] = "rfind"
  /\ pc' = [pc EXCEPT ![r] = "done"]
  /\ resp' = [resp EXCEPT ![r] = ErrorResp(500)]
  /\ UNCHANGED <<call, loc, click, eff, before, storeVars, instVars, issued, encVars>>

\* Url.findByIdAndUpdate(urlDoc._id, { $inc: { clicks: 1 } }) is applied
ClickApply(r) ==
  /\ click[r] = "pending"
  /\ urls' = [urls EXCEPT ![loc[r].urlDoc] = IncClicks(@)]
  /\ click' = [click EXCEPT ![r] = "applied"]
  /\ UNCHANGED <<counters, pc, call, loc, resp, eff, before, instVars, issued, encVars>>

\* .catch(err => console.error(...)): the response already sent stays as it is
OnClickError(r, rs) == rs

\* the findByIdAndUpdate rejects
ClickFail(r) ==
  /\ click[r] = "pending"
  /\ click' = [click EXCEPT ![r] = "failed"]
  /\ resp' = OnClickError(r, resp)
  /\ UNCHANGED <<storeVars, pc, call, loc, eff, before, instVars, issued, encVars>>

\* ------------------------------------------------------ app.use('/api/*')
\* a path below /api/ that no earlier route took: 404 with the list of endpoints
ApiCatchAll(r, p) ==
  /\ Arrive(r)
  /\ StartsWithApi(p)
  /\ call' = [call EXCEPT ![r] = [op |-> "api", longUrl |-> Undefined, path |-> p]]
  /\ pc' = [pc EXCEPT ![r] = "done"]
  /\ resp' = [resp EXCEPT ![r] = ErrorResp(404)]
  /\ UNCHANGED <<loc, click, eff, storeVars, instVars, issued, encVars>>

\* ------------------------------------------------------ GET /api/info/*
InfoStart(r, p) ==
  /\ Arrive(r)
  /\ call' = [call EXCEPT ![r] = [op |-> "info", longUrl |-> Undefined, path |-> p]]
  /\ IF p = <<>> \/ ~isValidShortCode(p)
       THEN /\ pc' = [pc EXCEPT ![r] = "done"]
            /\ resp' = [resp EXCEPT ![r] = ErrorResp(400)]
       ELSE /\ pc' = [pc EXCEPT ![r] = "ifind"]
            /\ UNCHANGED resp
  /\ UNCHANGED <<loc, click, eff, storeVars, instVars, issued, encVars>>

\* the findOne answers: 404 when there is no document, otherwise 200 with the
\* document's fields; the variant also counts the lookup as a click
InfoFindCountsClick(r) ==
  /\ pc[r] = "ifind"
  /\ \E d \in IF MatchShortCode(urls, call[r].path) = {}
                THEN {NoDoc} ELSE MatchShortCode(urls, call[r].path) :
       /\ loc' = [loc EXCEPT ![r].urlDoc = d]
       /\ resp' = [resp EXCEPT ![r] = IF d = NoDoc THEN ErrorResp(404) ELSE InfoResp(urls[d])]
       /\ urls' = IF d = NoDoc THEN urls ELSE [urls EXCEPT ![d] = IncClicks(@)]
  /\ eff' = [eff EXCEPT ![r].finds = @ + 1]
  /\ pc' = [pc EXCEPT ![r] = "done"]
  /\ UNCHANGED <<call, click, before, counters, instVars, issued, encVars>>

InfoFind(r) ==
  /\ pc[r] = "ifind"
  /\ \E d \in IF MatchShortCode(urls, call[r].path) = {}
                THEN {NoDoc} ELSE MatchShortCode(urls, call[r].path) :
       /\ loc' = [loc EXCEPT ![r].urlDoc = d]
       /\ resp' = [resp EXCEPT ![r] = IF d = NoDoc THEN ErrorResp(404) ELSE InfoResp(urls[d])]
  /\ eff' = [eff EXCEPT ![r].finds = @ + 1]
  /\ pc' = [pc EXCEPT ![r] = "done"]
  /\ UNCHANGED <<call, click, before, storeVars, instVars, issued, encVars>>

InfoStoreFail(r) ==
  /\ pc[r] = "ifind"
  /\ pc' = [pc EXCEPT ![r] = "done"]
  /\ resp' = [resp EXCEPT ![r] = ErrorResp(500)]
  /\ UNCHANGED <<call, loc, click, eff, before, storeVars, instVars, issued, encVars>>

\* ------------------------------------------------------- specification
\* one server instance, every route and every input
Next ==
  \/ Connect(1)
  \/ ConnectFail(1)
  \/ InitFind(1)
  \/ InitCreate(1)
  \/ InitFail(1)
  \/ \E r \in 1..MaxReq, b \in LongUrls : ShortenStart(r, b)
  \/ \E r \in Req : ShortenLookup(r)
  \/ \E r \in Req : ShortenAlloc(r)
  \/ \E r \in Req : ShortenSave(r)
  \/ \E r \in Req : ShortenStoreFail(r)
  \/ \E r \in 1..MaxReq, p \in ProbeCodes \cup StoredCodes : ResolveStart(r, p)
  \/ \E r \in Req : ResolveFind(r)
  \/ \E r \in Req : ResolveStoreFail(r)
  \/ \E r \in Req : ClickApply(r)
  \/ \E r \in Req : ClickFail(r)
  \/ \E r \in 1..MaxReq, p \in ProbeCodes \cup StoredCodes : InfoStart(r, p)
  \/ \E r \in Req : InfoFind(r)
  \/ \E r \in Req : InfoStoreFail(r)
  \/ \E r \in 1..MaxReq, p \in ApiPaths : ApiCatchAll(r, p)

Spec == Init /\ [][Next]_vars

\* several server instances starting against the same store while the
\* instances already listening serve shorten requests for well-formed URLs
ValidLongUrls == { b \in LongUrls : ~MissingLongUrl(b) /\ isValidUrl(trim(b.text)) }

\* of these, the strings that need no trimming
PlainLongUrls == { b \in ValidLongUrls : trim(b.text) = b.text }

RaceNext ==
  \/ \E i \in Inst : Connect(i)
  \/ \E i \in Inst : ConnectFail(i)
  \/ \E i \in Inst : InitFind(i)
  \/ \E i \in Inst : InitCreate(i)
  \/ \E i \in Inst : InitFail(i)
  \/ \E r \in 1..MaxReq, b \in PlainLongUrls : ShortenStart(r, b)
  \/ \E r \in Req : ShortenLookup(r)
  \/ \E r \in Req : ShortenAlloc(r)
  \/ \E r \in Req : ShortenSave(r)
  \/ \E r \in Req : ShortenStoreFail(r)

RaceSpec == Init /\ [][RaceNext]_vars

\* one server instance serving MaxDedupReq shorten requests for well-formed URLs
DedupNext ==
  \/ Connect(1)
  \/ ConnectFail(1)
  \/ InitFind(1)
  \/ InitCreate(1)
  \/ InitFail(1)
  \/ \E r \in 1..MaxDedupReq, b \in ValidLongUrls : ShortenStart(r, b)
  \/ \E r \in Req : ShortenLookup(r)
  \/ \E r \in Req : ShortenAlloc(r)
  \/ \E r \in Req : ShortenSave(r)
  \/ \E r \in Req : ShortenStoreFail(r)

DedupSpec == Init /\ [][DedupNext]_vars

\* one server instance started against a database that lost its Counter
\* collection but kept a Url record whose code the re-created counter issues next
LeftoverUrls ==
  << NewUrlDoc(<<"http:", "//example.com/b">>, encodeBase62(StartOffset + 1)) >>

ConflictInit ==
  /\ counters = <<>>
  /\ urls = LeftoverUrls
  /\ Init!3 /\ Init!4 /\ Init!5 /\ Init!6 /\ Init!7 /\ Init!8 /\ Init!9
  /\ Init!10 /\ Init!11 /\ Init!12 /\ Init!13 /\ Init!14

ConflictNext ==
  \/ Connect(1)
  \/ ConnectFail(1)
  \/ InitFind(1)
  \/ InitCreate(1)
  \/ InitFail(1)
  \/ \E r \in 1..MaxReq, b \in ValidLongUrls : ShortenStart(r, b)
  \/ \E r \in Req : ShortenLookup(r)
  \/ \E r \in Req : ShortenAlloc(r)
  \/ \E r \in Req : ShortenSave(r)
  \/ \E r \in Req : ShortenStoreFail(r)

ConflictSpec == ConflictInit /\ [][ConflictNext]_vars

\* one server instance serving MaxClickReq requests: shorten calls for
\* well-formed URLs and redirects for the codes stored and for a well-formed
\* code that is never issued, with the click increments they send
ClickCodes == StoredCodes \cup {<<"z", "Z", "9">>}

ClickNext ==
  \/ Connect(1)
  \/ ConnectFail(1)
  \/ InitFind(1)
  \/ InitCreate(1)
  \/ InitFail(1)
  \/ \E r \in 1..MaxClickReq, b \in PlainLongUrls : ShortenStart(r, b)
  \/ \E r \in Req : ShortenLookup(r)
  \/ \E r \in Req : ShortenAlloc(r)
  \/ \E r \in Req : ShortenSave(r)
  \/ \E r \in Req : ShortenStoreFail(r)
  \/ \E r \in 1..MaxClickReq, p \in ClickCodes : ResolveStart(r, p)
  \/ \E r \in Req : ResolveFind(r)
  \/ \E r \in Req : ResolveStoreFail(r)
  \/ \E r \in Req : ClickApply(r)
  \/ \E r \in Req : ClickFail(r)

ClickSpec == Init /\ [][ClickNext]_vars

\* one server instance serving MaxClickReq requests: shorten calls for one
\* well-formed URL, redirects for the codes stored with their click
\* increments, and info lookups for the codes stored, for a well-formed code
\* that is never issued and for a code with a character outside [A-Za-z0-9]
InfoLongUrls == {Str(<<"https:", "//example.com/a">>)}

InfoCodes == StoredCodes \cup {<<"z", "Z", "9">>, <<"a", "-", "b">>}

InfoNext ==
  \/ Connect(1)
  \/ ConnectFail(1)
  \/ InitFind(1)
  \/ InitCreate(1)
  \/ InitFail(1)
  \/ \E r \in 1..MaxClickReq, b \in InfoLongUrls : ShortenStart(r, b)
  \/ \E r \in Req : ShortenLookup(r)
  \/ \E r \in Req : ShortenAlloc(r)
  \/ \E r \in Req : ShortenSave(r)
  \/ \E r \in Req : ShortenStoreFail(r)
  \/ \E r \in 1..MaxClickReq, p \in StoredCodes : ResolveStart(r, p)
  \/ \E r \in Req : ResolveFind(r)
  \/ \E r \in Req : ResolveStoreFail(r)
  \/ \E r \in Req : ClickApply(r)
  \/ \E r \in Req : ClickFail(r)
  \/ \E r \in 1..MaxClickReq, p \in InfoCodes : InfoStart(r, p)
  \/ \E r \in Req : InfoFind(r)
  \/ \E r \in Req : InfoStoreFail(r)

InfoSpec == Init /\ [][InfoNext]_vars

\* ------------------------------------------------ encoder specification
\* encodeBase62 applied to integers around 0 and around the starting offset
EncDomain == (0..MaxEncN) \cup (StartOffset..(StartOffset + MaxEncN))

EncInit ==
  /\ Init!1 /\ Init!2 /\ Init!3 /\ Init!4 /\ Init!5 /\ Init!6 /\ Init!7
  /\ Init!8 /\ Init!9 /\ Init!10 /\ Init!11 /\ Init!12
  /\ encIn \in EncDomain
  /\ encOut = NoCode

Encode ==
  /\ encOut = NoCode
  /\ encOut' = encodeBase62(encIn)
  /\ UNCHANGED <<encIn, storeVars, instVars, reqVars, issued>>

EncNext == Encode

EncSpec == EncInit /\ [][EncNext]_vars

\* =================================================================== claims
Done(r) == pc[r] = "done"
IsShorten(r) == call[r].op = "shorten"
IsResolve(r) == call[r].op = "resolve"
Created(r) == IsShorten(r) /\ Done(r) /\ resp[r].status = 201
Shortened(r) == IsShorten(r) /\ Done(r) /\ resp[r].success
Concurrent(r1, r2) ==
  /\ r1 # r2
  /\ call[r1].op # "none" /\ call[r2].op # "none"
  /\ r1 \notin before[r2] /\ r2 \notin before[r1]

RECURSIVE SumOver(_, _)
SumOver(f, S) ==
  IF S = {} THEN 0
  ELSE LET x == CHOOSE y \in S : TRUE IN f[x] + SumOver(f, S \ {x})

\* -------------------------------------------------------------------- C1
\* C1: shorten calls on URLs that differ (after trimming) never answer the same
\* short code, under any interleaving of lookup, counter increment and insert,
\* and no two stored URL records have the same shortCode.
C1_DistinctShortCodes ==
  /\ \A i, j \in 1..Len(urls) : i # j => urls[i].shortCode # urls[j].shortCode
  /\ \A r1, r2 \in Req :
       (Shortened(r1) /\ Shortened(r2) /\ trimmedUrl(r1) # trimmedUrl(r2))
         => resp[r1].shortCode # resp[r2].shortCode

\* two overlapping shorten calls for different URLs have both created a record
C1_Witness ==
  \E r1, r2 \in Req :
    /\ Concurrent(r1, r2)
    /\ Created(r1) /\ Created(r2)
    /\ trimmedUrl(r1) # trimmedUrl(r2)
    /\ Len(urls) >= 2

\* -------------------------------------------------------------------- C2
\* C2: there is at most one stored URL record per originalUrl, also when shorten
\* calls for the same new URL overlap.
C2_OneRecordPerOriginalUrl ==
  \A i, j \in 1..Len(urls) : i # j => urls[i].originalUrl # urls[j].originalUrl

\* -------------------------------------------------------------------- C3
\* C3: once a shorten call for u has answered code c, every shorten call for u
\* that arrives afterwards (and is not answered 500 for a store failure) answers
\* c with status 200, without a counter increment and without an insert.
C3_IdempotentReshorten ==
  \A r2 \in Req : \A r1 \in before[r2] :
    (/\ Shortened(r1)
     /\ IsShorten(r2) /\ Done(r2) /\ resp[r2].status # 500
     /\ trimmedUrl(r1) = trimmedUrl(r2))
      => /\ resp[r2].shortCode = resp[r1].shortCode
         /\ resp[r2].status = 200
         /\ eff[r2].incs = 0
         /\ eff[r2].inserts = 0

\* -------------------------------------------------------------------- C4
\* C4: the values getNextCounterValue returns are strictly increasing in the
\* order of issue (so pairwise distinct), and the stored counter never
\* disappears nor decreases, whatever the interleaving.
C4_AllocatorStrictlyIncreasing ==
  [][ /\ \A i, j \in 1..Len(issued') : i < j => issued'[i] < issued'[j]
      /\ Len(counters) > 0 => (Len(counters') > 0 /\ counters'[1] >= counters[1])
    ]_vars

\* two overlapping shorten calls have both been issued a value, and one of them
\* then failed at the insert
C4_Witness ==
  \E r1, r2 \in Req :
    /\ Concurrent(r1, r2)
    /\ eff[r1].incs = 1 /\ eff[r2].incs = 1
    /\ Done(r1) /\ resp[r1].status = 500
    /\ Len(issued) >= 2

\* -------------------------------------------------------------------- C5
\* C5: a shorten call whose longUrl is missing, empty, not a string, not a
\* well-formed URL or not http/https is answered 400 with success:false at once,
\* performs no store operation, and leaves the counter and the records as they
\* were.
InvalidLongUrl(b) ==
  \/ b.kind # "string"
  \/ b.text = <<>>
  \/ ~Parses(trim(b.text))
  \/ trim(b.text)[1] \notin {"http:", "https:"}

C5_InvalidUrlRejectedWithoutStorage ==
  [][ \A r \in Req :
        (call'[r].op = "shorten" /\ InvalidLongUrl(call'[r].longUrl))
          => /\ pc'[r] = "done"
             /\ resp'[r].status = 400 /\ ~resp'[r].success
             /\ eff'[r] = NoEff
             /\ call[r].op = "none" => storeVars' = storeVars
    ]_vars

\* an ftp URL has been rejected while a record is stored
C5_Witness ==
  \E r \in Req :
    /\ IsShorten(r) /\ Done(r)
    /\ call[r].longUrl = Str(<<"ftp:", "//example.com/a">>)
    /\ resp[r].status = 400
    /\ Len(urls) > 0

\* -------------------------------------------------------------------- C6
\* C6: resolve of a well-formed code without a stored record answers 404, and
\* resolve of a code that an earlier shorten call answered for URL u answers a
\* 301 redirect to u (as trimmed by shorten), unless the lookup itself failed.
C6_ResolveReturnsOriginalUrl ==
  \A r \in Req :
    (IsResolve(r) /\ Done(r) /\ isValidShortCode(call[r].path) /\ resp[r].status # 500)
      => /\ loc[r].urlDoc = NoDoc => resp[r].status = 404
         /\ \A s \in before[r] :
              (Shortened(s) /\ resp[s].shortCode = call[r].path)
                => /\ resp[r].status = 301
                   /\ resp[r].location = trimmedUrl(s)

\* -------------------------------------------------------------------- C7
\* C7: whatever becomes of the click increment (pending, applied or failed), the
\* caller of resolve has the 301 redirect to the stored originalUrl, and a
\* failed increment changes no record.
C7_RedirectIndependentOfClick ==
  [][ \A r \in Req :
        /\ click'[r] \in {"pending", "applied", "failed"}
             => /\ resp'[r].status = 301
                /\ resp'[r].location = urls'[loc'[r].urlDoc].originalUrl
        /\ (click[r] = "pending" /\ click'[r] = "failed") => urls' = urls
    ]_vars

\* -------------------------------------------------------------------- C8
\* C8: a record is created with clicks 0, no step decreases the clicks of a
\* record, and once a click increment for a record has been applied its clicks
\* is at least 1.
C8_ClicksNeverDecrease ==
  [][ /\ Len(urls') >= Len(urls)
      /\ \A i \in 1..Len(urls) : urls'[i].clicks >= urls[i].clicks
      /\ \A i \in (Len(urls) + 1)..Len(urls') : urls'[i].clicks = 0
      /\ \A r \in Req : click'[r] = "applied" => urls'[loc'[r].urlDoc].clicks >= 1
    ]_vars

\* a resolve call has redirected and its click increment has been applied
C8_Witness ==
  \E r \in Req :
    /\ IsResolve(r) /\ Done(r)
    /\ click[r] = "applied"
    /\ urls[loc[r].urlDoc].clicks = 1

\* -------------------------------------------------------------------- C9
CharValue(c) == (CHOOSE i \in 1..Len(BASE62_CHARS) : BASE62_CHARS[i] = c) - 1

\* the value of a base-62 numeral, most significant symbol first
RECURSIVE Decode(_)
Decode(code) ==
  IF code = <<>> THEN 0
  ELSE Decode(SubSeq(code, 1, Len(code) - 1)) * Base + CharValue(code[Len(code)])

\* C9: encodeBase62 is injective on the integers checked, decoding its result
\* as a base-62 numeral over digits, lowercase, uppercase gives the integer
\* back, encode(0) is "0", and for n > 0 the result has no leading "0".
C9_EncodeInjectiveInvertible ==
  encOut # NoCode =>
    /\ Decode(encOut) = encIn
    /\ \A m \in EncDomain : m # encIn => encodeBase62(m) # encOut
    /\ \A i \in 1..Len(encOut) : encOut[i] \in Alnum
    /\ encIn = 0 => encOut = <<"0">>
    /\ encIn > 0 => encOut[1] # "0"

\* the starting offset has been encoded, to three symbols
C9_Witness ==
  /\ encIn = StartOffset
  /\ encOut = <<"q", "0", "U">>

\* ------------------------------------------------------------------- C10
\* C10: a shorten call increments the counter at most once and inserts at most
\* one record, and none of either when its lookup found the URL; the records
\* and the issued values are exactly those the calls account for.
C10_AtMostOneIncrementAndInsert ==
  /\ \A r \in Req :
       /\ eff[r].incs <= 1 /\ eff[r].inserts <= 1
       /\ loc[r].existingUrl # NoDoc => (eff[r].incs = 0 /\ eff[r].inserts = 0)
       /\ ~IsShorten(r) => (eff[r].incs = 0 /\ eff[r].inserts = 0)
  /\ Len(urls) = SumOver([r \in Req |-> eff[r].inserts], Req)
  /\ Len(issued) = SumOver([r \in Req |-> eff[r].incs], Req)

\* one call created the record, a later call for the same URL found it
C10_Witness ==
  \E r1, r2 \in Req :
    /\ Created(r1) /\ eff[r1].incs = 1 /\ eff[r1].inserts = 1
    /\ IsShorten(r2) /\ Done(r2) /\ loc[r2].existingUrl # NoDoc
    /\ resp[r2].status = 200 /\ eff[r2].incs = 0

\* ------------------------------------------------------------------- C11
\* C11: when the insert is rejected because the shortCode is stored already, the
\* shorten call is answered 500 with success:false and no short code, takes no
\* second counter value, inserts nothing, and the stored records stay as they
\* were.
C11_DuplicateCodeIsHardError ==
  [][ \A r \in Req :
        /\ eff'[r].incs <= 1
        /\ (/\ pc[r] = "save" /\ pc'[r] = "done"
            /\ \E i \in 1..Len(urls) : urls[i].shortCode = loc[r].shortCode)
             => /\ resp'[r].status = 500 /\ ~resp'[r].success
                /\ resp'[r].shortCode = NoCode
                /\ urls' = urls /\ counters' = counters /\ issued' = issued
                /\ eff'[r] = eff[r] /\ eff[r].incs = 1
    ]_vars

\* a call was issued a value whose code is stored already and has been answered
\* 500 without an insert
C11_Witness ==
  \E r \in Req :
    /\ IsShorten(r) /\ Done(r)
    /\ eff[r].incs = 1 /\ eff[r].inserts = 0
    /\ resp[r].status = 500
    /\ loc[r].shortCode = encodeBase62(StartOffset + 1)
    /\ \E i \in 1..Len(urls) : urls[i].shortCode = loc[r].shortCode

\* ------------------------------------------------------------------- C12
\* C12: when the counter increment fails, getNextCounterValue returns no
\* integer and the shorten call is answered 500 with success:false, without a
\* short code and without inserting a record; the counter is as it was.
C12_CounterFailureIsServerError ==
  [][ \A r \in Req :
        (pc[r] = "alloc" /\ pc'[r] = "done")
          => /\ resp'[r].status = 500 /\ ~resp'[r].success
             /\ resp'[r].shortCode = NoCode
             /\ loc'[r].counterId = 0 /\ loc'[r].shortCode = NoCode
             /\ issued' = issued /\ counters' = counters /\ urls' = urls
             /\ eff'[r].incs = 0 /\ eff'[r].inserts = 0
    ]_vars

\* a call passed the lookup, its counter increment failed, it was answered 500
C12_Witness ==
  \E r \in Req :
    /\ IsShorten(r) /\ Done(r)
    /\ eff[r].finds = 1 /\ loc[r].existingUrl = NoDoc
    /\ eff[r].incs = 0
    /\ resp[r].status = 500

\* ------------------------------------------------------------------- C13
\* a path that is no [A-Za-z0-9]{1,10}
MalformedCode(p) ==
  ~(Len(p) \in 1..MaxCodeLen /\ \A i \in 1..Len(p) : p[i] \in Alnum)

\* C13 as stated: resolve and info lookup of a code that does not match
\* [A-Za-z0-9]{1,10} are answered 400 before any store access, without a
\* redirect and without a click increment.
C13_MalformedCodeAnswered400 ==
  \A r \in Req :
    (call[r].op \in {"resolve", "info"} /\ MalformedCode(call[r].path))
      => /\ pc[r] = "done"
         /\ resp[r].status = 400
         /\ eff[r] = NoEff /\ click[r] = "none" /\ resp[r].location = NoUrl

\* C13 as amended: such a request is answered at once with a client error, 400,
\* or 404 when it is a resolve of the empty path or of favicon.ico, before any
\* store access, without a redirect and without a click increment; the counter
\* and the records stay as they were.
C13_MalformedCodeRejectedWithoutStorage ==
  [][ \A r \in Req :
        (call'[r].op \in {"resolve", "info"} /\ MalformedCode(call'[r].path))
          => /\ pc'[r] = "done"
             /\ resp'[r].status =
                  IF call'[r].op = "resolve" /\ call'[r].path \in {<<>>, Favicon}
                    THEN 404 ELSE 400
             /\ ~resp'[r].success
             /\ eff'[r] = NoEff /\ click'[r] = "none" /\ resp'[r].location = NoUrl
             /\ call[r].op = "none" => storeVars' = storeVars
    ]_vars

\* a resolve of a code of 11 letters was answered 400, an info lookup of a code
\* with a '-' was answered 400
C13_Witness ==
  \E r1, r2 \in Req :
    /\ IsResolve(r1) /\ Done(r1) /\ Len(call[r1].path) = 11
    /\ call[r1].path # Favicon /\ resp[r1].status = 400
    /\ call[r2].op = "info" /\ Done(r2) /\ call[r2].path = <<"a", "-", "b">>
    /\ resp[r2].status = 400

\* ------------------------------------------------------------------- C14
\* a GET whose path is neither a known API route nor, at any time so far, the
\* short code of a stored record, and whose lookup (if any) did not fail
UnknownPathAnswered(r) ==
  /\ Done(r)
  /\ \/ call[r].op = "api"
     \/ IsResolve(r) /\ call[r].path \notin StoredCodes /\ resp[r].status # 500

\* C14 as stated: every such request is answered 404 with success:false, without
\* a redirect and without a click increment.
C14_UnknownPathAnswered404 ==
  \A r \in Req :
    UnknownPathAnswered(r)
      => /\ resp[r].status = 404 /\ ~resp[r].success
         /\ click[r] = "none" /\ resp[r].location = NoUrl

\* C14 as amended: every such request is answered with success:false, status
\* 404, or 400 when the path is not a well-formed short code (and is not empty,
\* favicon.ico or below /api/), without a redirect and without a click
\* increment.
C14_UnknownPathAnsweredClientError ==
  \A r \in Req :
    UnknownPathAnswered(r)
      => /\ resp[r].status =
              IF /\ IsResolve(r) /\ MalformedCode(call[r].path)
                 /\ call[r].path \notin {<<>>, Favicon}
                 /\ ~StartsWithApi(call[r].path)
                THEN 400 ELSE 404
         /\ ~resp[r].success
         /\ click[r] = "none" /\ resp[r].location = NoUrl
         /\ eff[r].incs = 0 /\ eff[r].inserts = 0

\* with a record stored, a well-formed code that is not stored was looked up and
\* answered 404
C14_Witness ==
  \E r \in Req :
    /\ IsResolve(r) /\ Done(r)
    /\ call[r].path = <<"z", "Z", "9">>
    /\ eff[r].finds = 1
    /\ resp[r].status = 404
    /\ Len(urls) > 0

C16_IssuedAboveStartOffset ==
  \A k \in 1..Len(issued) : issued[k] > StartOffset

\* ------------------------------------------------------------------- C17
\* C17: an instance accepts requests only after its counter initialization has
\* completed without error: an instance whose initializeCounter failed never
\* listens, and every request that arrived was taken by an instance that
\* started without error.
C17_ServesOnlyAfterCleanStartup ==
  /\ \A i \in Inst : initErr[i] => inst[i] # "listening"
  /\ (\E r \in Req : pc[r] # "idle")
       => \E i \in Inst : inst[i] = "listening" /\ ~initErr[i]

\* ------------------------------------------------------------------- C18
\* C18: under racing start-ups interleaved with getNextCounterValue calls there
\* is never more than one counter record named 'urlId', there is exactly one as
\* soon as some instance has completed initializeCounter without error, and no
\* value is issued twice.
C18_OneCounterNoReissue ==
  /\ Len(counters) <= 1
  /\ (\E i \in Inst : inst[i] = "listening" /\ ~initErr[i]) => Len(counters) = 1
  /\ \A k, l \in 1..Len(issued) : k # l => issued[k] # issued[l]

\* the second instance has read 'absent' and is about to create the counter,
\* while the first has created it and has already issued a value from it
C18_Witness ==
  /\ inst[1] = "listening" /\ ~initErr[1]
  /\ inst[2] = "initCreate"
  /\ Len(counters) = 1
  /\ Len(issued) >= 1
  /\ issued[1] = StartOffset + 1

\* ------------------------------------------------------------------- C19
\* C19: every shorten call that created a record was issued an integer k by the
\* counter, answers encodeBase62(k), and a stored record has that short code and
\* the call's URL; every stored record's short code is the base-62 numeral of an
\* integer issued to a shorten call that created it; and with a counter that
\* start-up initialized, the first integer issued is the one after the offset.
C19_StoredCodeEncodesIssuedValue ==
  /\ \A r \in Req :
       Created(r)
         => /\ \E k \in 1..Len(issued) : issued[k] = loc[r].counterId
            /\ resp[r].shortCode = encodeBase62(loc[r].counterId)
            /\ \E i \in 1..Len(urls) :
                 /\ urls[i].shortCode = resp[r].shortCode
                 /\ urls[i].originalUrl = trimmedUrl(r)
  /\ \A i \in 1..Len(urls) :
       \E r \in Req :
         /\ Created(r)
         /\ loc[r].counterId = Decode(urls[i].shortCode)
         /\ urls[i].originalUrl = trimmedUrl(r)
  /\ (Len(issued) > 0 /\ ~initErr[1]) => issued[1] = StartOffset + 1

\* the first shorten call after a clean start-up was issued 100001 and its
\* response and its stored record both carry "q0V"
C19_Witness ==
  \E r \in Req :
    /\ Created(r)
    /\ ~initErr[1]
    /\ loc[r].counterId = StartOffset + 1
    /\ issued[1] = StartOffset + 1
    /\ resp[r].shortCode = <<"q", "0", "V">>
    /\ urls[1].shortCode = <<"q", "0", "V">>

\* ------------------------------------------------------------------- C20
\* the resolve calls that found record i
FoundBy(i) == { r \in Req : IsResolve(r) /\ loc[r].urlDoc = i }

\* C20: in every reachable state the clicks of a record is the number of resolve
\* calls that found it and whose increment has been applied, hence at most the
\* number of resolve calls that found it; and when no increment for the record
\* is pending or has failed, clicks is the number of resolve calls that
\* redirected for its code.
C20_ClicksCountAppliedIncrements ==
  \A i \in 1..Len(urls) :
    /\ urls[i].clicks = Cardinality({ r \in FoundBy(i) : click[r] = "applied" })
    /\ urls[i].clicks <= Cardinality(FoundBy(i))
    /\ (\A r \in FoundBy(i) : click[r] = "applied")
         => urls[i].clicks =
              Cardinality({ r \in Req : /\ IsResolve(r) /\ Done(r)
                                        /\ call[r].path = urls[i].shortCode
                                        /\ resp[r].location # NoUrl })

\* two redirects for the same record: the increment of the one that arrived
\* later has been applied while the increment of the earlier one is pending
C20_Witness ==
  \E r1, r2 \in Req :
    /\ r1 < r2
    /\ IsResolve(r1) /\ IsResolve(r2)
    /\ loc[r1].urlDoc # NoDoc /\ loc[r1].urlDoc = loc[r2].urlDoc
    /\ click[r1] = "pending" /\ click[r2] = "applied"
    /\ urls[loc[r1].urlDoc].clicks = 1

\* ------------------------------------------------------------------- C21
\* C21: every step of an info lookup, for any code, leaves the counter, the
\* values issued, every URL record (its clicks included) and every click
\* increment as they are; and the lookup of a stored code whose findOne does not
\* fail answers 200 with the originalUrl, shortCode and clicks that the record
\* with that code has at that moment.
C21_InfoReadOnly ==
  [][ \A r \in Req :
        (call'[r].op = "info" /\ pc'[r] # pc[r])
          => /\ urls' = urls /\ counters' = counters /\ issued' = issued
             /\ click' = click
             /\ eff'[r].incs = 0 /\ eff'[r].inserts = 0
             /\ (/\ pc[r] = "ifind" /\ resp'[r].status # 500
                 /\ call[r].path \in StoredCodes)
                  => \E i \in 1..Len(urls) :
                       /\ urls[i].shortCode = call[r].path
                       /\ resp'[r] =
                            [status |-> 200, success |-> TRUE,
                             shortCode |-> call[r].path,
                             originalUrl |-> urls[i].originalUrl,
                             location |-> NoUrl,
                             clicks |-> urls[i].clicks] ]_vars

\* an info lookup of a record that was redirected once has answered clicks 1 and
\* the record still has clicks 1
C21_Witness ==
  \E r \in Req :
    /\ call[r].op = "info" /\ Done(r)
    /\ resp[r].status = 200
    /\ resp[r].clicks = 1
    /\ loc[r].urlDoc # NoDoc
    /\ urls[loc[r].urlDoc].clicks = 1
    /\ urls[loc[r].urlDoc].shortCode = call[r].path
    /\ resp[r].originalUrl = urls[loc[r].urlDoc].originalUrl

====
